---------------------------- MODULE Spec2Model ----------------------------
(***************************************************************************)
(* garmin-dashboard: the FIT record normalizer (fit_parser.py) and the     *)
(* run-performance metrics (analytics.py), as driven by run_analyze        *)
(* (main.py).                                                              *)
(*                                                                         *)
(* Numbers.  A float is modelled as an extended rational                   *)
(*   [k |-> "fin", n |-> numerator, d |-> denominator > 0]                 *)
(*   [k |-> "inf", n |-> 1 or -1, d |-> 1]     (+inf, -inf)                *)
(*   [k |-> "nan", n |-> 0, d |-> 1]           (NaN, the missing marker)   *)
(* with IEEE-754 rules for the special values (numpy float64 division by   *)
(* zero gives inf or NaN, it does not raise).  Finite arithmetic is exact; *)
(* binary rounding error of the floats is not modelled.                    *)
(* A returned metric is [k |-> "none"], [k |-> "num", h |-> hundredths]    *)
(* or [k |-> "inf", h |-> sign].                                           *)
(***************************************************************************)
EXTENDS Integers, Sequences, FiniteSets, TLC

\* Longest list of FIT record messages explored.
MaxRecords == 5

---------------------------------------------------------------------------
(* Extended rationals *)

RECURSIVE Gcd(_, _)
Gcd(a, b) == IF b = 0 THEN a ELSE Gcd(b, a % b)

Abs(x) == IF x < 0 THEN -x ELSE x

Sgn(x) == IF x < 0 THEN -1 ELSE IF x = 0 THEN 0 ELSE 1

Fin(n, d) ==
    LET s == IF d < 0 THEN -1 ELSE 1
        g == Gcd(Abs(n), Abs(d))
    IN [k |-> "fin", n |-> (s * n) \div g, d |-> (s * d) \div g]

Inf(s) == [k |-> "inf", n |-> s, d |-> 1]

NaN == [k |-> "nan", n |-> 0, d |-> 1]

IsNaN(x) == x.k = "nan"

IsZero(x) == x.k = "fin" /\ x.n = 0

\* Sign of an extended rational: -1, 0 or 1 (0 for NaN).
SignX(x) == Sgn(x.n)

NegX(x) == [x EXCEPT !.n = -x.n]

AddX(a, b) ==
    IF IsNaN(a) \/ IsNaN(b) THEN NaN
    ELSE IF a.k = "inf" /\ b.k = "inf" THEN (IF a.n = b.n THEN a ELSE NaN)
    ELSE IF a.k = "inf" THEN a
    ELSE IF b.k = "inf" THEN b
    ELSE Fin(a.n * b.d + b.n * a.d, a.d * b.d)

SubX(a, b) == AddX(a, NegX(b))

MulX(a, b) ==
    IF IsNaN(a) \/ IsNaN(b) THEN NaN
    ELSE IF a.k = "inf" \/ b.k = "inf"
         THEN (IF IsZero(a) \/ IsZero(b) THEN NaN ELSE Inf(SignX(a) * SignX(b)))
    ELSE Fin(a.n * b.n, a.d * b.d)

DivX(a, b) ==
    IF IsNaN(a) \/ IsNaN(b) THEN NaN
    ELSE IF a.k = "inf" THEN (IF b.k = "inf" THEN NaN
                              ELSE Inf(a.n * (IF SignX(b) < 0 THEN -1 ELSE 1)))
    ELSE IF b.k = "inf" THEN Fin(0, 1)
    ELSE IF b.n = 0 THEN (IF a.n = 0 THEN NaN ELSE Inf(SignX(a)))
    ELSE Fin(a.n * b.d, a.d * b.n)

\* a < b on non-NaN values.
LessX(a, b) ==
    IF a.k = "inf" THEN a.n < 0 /\ ~(b.k = "inf" /\ b.n < 0)
    ELSE IF b.k = "inf" THEN b.n > 0
    ELSE a.n * b.d < b.n * a.d

Int2X(i) == Fin(i, 1)

\* n / d (d > 0) rounded to an integer, as a set: round() decides an exact
\* half by the float at hand, which lies a little above or below the exact
\* quotient (or on it: then to the even side).  The float's error is not
\* modelled, so on an exact half both neighbours are possible results.
Round(n, d) ==
    LET q == n \div d
        r == n % d
    IN IF 2 * r < d THEN {q}
       ELSE IF 2 * r > d THEN {q + 1}
       ELSE {q, q + 1}

---------------------------------------------------------------------------
(* Metric values *)

None == [k |-> "none", h |-> 0]

Num(h) == [k |-> "num", h |-> h]

InfMetric(s) == [k |-> "inf", h |-> s]

\* _round_or_none, as the set of its possible results: pd.isna is true of
\* None and NaN only, so an infinity is rounded (round(float("inf"), 2) is
\* inf) and returned.
round_or_none(value) ==
    IF value.k = "nan" THEN {None}
    ELSE IF value.k = "inf" THEN {InfMetric(value.n)}
    ELSE {Num(h) : h \in Round(100 * value.n, value.d)}

---------------------------------------------------------------------------
(* Raw FIT values and the frame *)

\* The six channels, in column_order.
column_order == <<"timestamp", "heart_rate", "cadence", "distance", "speed", "altitude">>

wanted_fields == {column_order[i] : i \in 1..Len(column_order)}

\* A field value as fitparse hands it over: a number, a numeric text, a text
\* that is no number, or None.
NumV(v) == [t |-> "num", v |-> v]
TextV(v) == [t |-> "text", v |-> v]
JunkV == [t |-> "junk", v |-> 0]
NullV == [t |-> "null", v |-> 0]
\* pd.NA / NaN: what pandas puts where a row has no entry for a column.
NA == [t |-> "na", v |-> 0]

\* pd.to_numeric(..., errors="coerce") on one cell
to_numeric_cell(c) ==
    IF c.t \in {"num", "text"} THEN Int2X(c.v) ELSE NaN

to_numeric(col) == [i \in 1..Len(col) |-> to_numeric_cell(col[i])]

---------------------------------------------------------------------------
(* pandas Series of floats: a sequence of extended rationals, NaN = missing *)

NotNaN(x) == ~IsNaN(x)

\* Series.dropna(): the non-missing values, in their original order
dropna(s) == SelectSeq(s, NotNaN)

RECURSIVE SumX(_)
SumX(s) == IF Len(s) = 0 THEN Int2X(0) ELSE AddX(Head(s), SumX(Tail(s)))

\* the mean with every missing slot counted as a 0
mean_over_slots(s) ==
    LET c == dropna(s)
    IN IF Len(s) = 0 THEN NaN ELSE DivX(SumX(c), Int2X(Len(s)))

\* Series.mean(): skips NaN; NaN when nothing is left
mean(s) ==
    LET c == dropna(s)
    IN IF Len(c) = 0 THEN NaN ELSE DivX(SumX(c), Int2X(Len(c)))

RECURSIVE MaxX(_)
MaxX(s) ==
    IF Len(s) = 1 THEN Head(s)
    ELSE LET m == MaxX(Tail(s)) IN IF LessX(Head(s), m) THEN m ELSE Head(s)

\* Series.max(): skips NaN; NaN when nothing is left
max(s) ==
    LET c == dropna(s)
    IN IF Len(c) = 0 THEN NaN ELSE MaxX(c)

\* The square of Series.std() (sample variance, ddof = 1); NaN below 2 values.
variance(s) ==
    LET c == dropna(s)
        m == mean(c)
        sq == [i \in 1..Len(c) |-> MulX(SubX(c[i], m), SubX(c[i], m))]
    IN IF Len(c) < 2 THEN NaN ELSE DivX(SumX(sq), Int2X(Len(c) - 1))

\* Series.iloc[a:b] with 0-based half-open bounds
iloc(s, a, b) == SubSeq(s, a + 1, b)

---------------------------------------------------------------------------
(* Comparing products beyond 32 bits: x * r against c * p *)

Limb == 2^15

\* x * r as <<high, low>> in base Limb (x < 2^31, r < Limb)
Prod(x, r) ==
    LET m == (x % Limb) * r
    IN <<(x \div Limb) * r + m \div Limb, m % Limb>>

PairLess(a, b) == a[1] < b[1] \/ (a[1] = b[1] /\ a[2] < b[2])

\* -1, 0, 1 as x * r is below, equal to, above c * p
CmpProd(x, r, c, p) ==
    LET a == Prod(x, r)
        b == Prod(c, p)
    IN IF PairLess(a, b) THEN -1 ELSE IF PairLess(b, a) THEN 1 ELSE 0

\* 100.00 in hundredths, and its square
HundredPct == 100 * 100
HundredPctSq == HundredPct * HundredPct

\* The largest s in lo..hi with s^2 * r <= scale * p (scale below 2^31 / p).
RECURSIVE SmallRoot(_, _, _, _, _)
SmallRoot(p, r, scale, lo, hi) ==
    IF lo = hi THEN lo
    ELSE LET mid == (lo + hi + 1) \div 2
         IN IF mid * mid * r <= scale * p
            THEN SmallRoot(p, r, scale, mid, hi)
            ELSE SmallRoot(p, r, scale, lo, mid - 1)

\* The largest s in lo..hi with s^2 * r <= target, target = <<high, low>>.
RECURSIVE LimbRoot(_, _, _, _)
LimbRoot(target, r, lo, hi) ==
    IF lo = hi THEN lo
    ELSE LET mid == (lo + hi + 1) \div 2
         IN IF ~PairLess(target, Prod(mid * mid, r))
            THEN LimbRoot(target, r, mid, hi)
            ELSE LimbRoot(target, r, lo, mid - 1)

\* floor(10^4 * sqrt(p / r)) for p / r <= top^2: the first digits from
\* floor(100 * sqrt(p / r)), the last two by a search beside them.
FloorRoot(p, r, top) ==
    LET a == SmallRoot(p, r, HundredPct, 0, 100 * top)
    IN IF p = 0 THEN 0
       ELSE LimbRoot(Prod(HundredPctSq, p), r, 100 * a, 100 * a + 99)

\* round(100.0 - sqrt(p / r) * 100.0, 2) in hundredths, for 0 <= p / r <= 1,
\* as the set of possible results
RoundedComplement(p, r) ==
    LET s == FloorRoot(p, r, 1)
        half == CmpProd((2 * s + 1) * (2 * s + 1), r, 4 * HundredPctSq, p)
    IN IF half > 0 THEN {HundredPct - s}
       ELSE IF half < 0 THEN {HundredPct - s - 1}
       ELSE {HundredPct - s - 1, HundredPct - s}

---------------------------------------------------------------------------
(* fit_parser.py *)

\* The row built from one record message: its recognized fields only.
RowOf(record) == [f \in (DOMAIN record) \cap wanted_fields |-> record[f]]

HasField(row) == DOMAIN row # {}

KeepEveryRow(row) == TRUE

\* "if row: rows.append(row)": an empty row is not appended
RowKept(row) == HasField(row)

\* The rows list after the loop over fit_file.get_messages("record").
RowsOf(records) ==
    SelectSeq([i \in 1..Len(records) |-> RowOf(records[i])], RowKept)

\* pd.DataFrame(rows): one column per key seen, NaN where a row has no entry
DataFrame(rows) ==
    [c \in UNION {DOMAIN rows[i] : i \in 1..Len(rows)} |->
        [i \in 1..Len(rows) |-> IF c \in DOMAIN rows[i] THEN rows[i][c] ELSE NA]]

\* "for col in column_order: if col not in df.columns: df[col] = pd.NA",
\* then df[column_order]
WithAllColumns(frame, n) ==
    [c \in wanted_fields |->
        IF c \in DOMAIN frame THEN frame[c] ELSE [i \in 1..n |-> NA]]

parse_fit_to_dataframe(records) ==
    LET rows == RowsOf(records)
    IN IF Len(rows) = 0
       THEN [c \in wanted_fields |-> <<>>]
       ELSE WithAllColumns(DataFrame(rows), Len(rows))

\* Number of rows of a frame.
NRows(frame) ==
    IF DOMAIN frame = {} THEN 0 ELSE Len(frame[CHOOSE c \in DOMAIN frame : TRUE])

\* DataFrame.empty: no column or no row
empty(frame) == NRows(frame) = 0

---------------------------------------------------------------------------
(* analytics.py *)

MetricNames ==
    {"avg_hr", "max_hr", "hr_drift_pct", "pace_hr_ratio",
     "cadence_consistency_pct", "aerobic_decoupling_pct"}

CeilHalf(n) == (n + 1) \div 2

\* "len(clean) // 2"
midpoint(n) == n \div 2

compute_hr_drift(heart_rate) ==
    LET clean == dropna(heart_rate)
        mid == midpoint(Len(clean))
        first == mean(iloc(clean, 0, mid))
        second == mean(iloc(clean, mid, Len(clean)))
    IN IF Len(clean) < 4 THEN {None}
       ELSE IF IsNaN(first) \/ IsZero(first) THEN {None}
       ELSE round_or_none(MulX(DivX(SubX(second, first), first), Int2X(100)))

\* pace_hr_ratio over the rows where both values are present
pace_hr_ratio_joint(speed, heart_rate) ==
    LET Both(i) == NotNaN(speed[i]) /\ NotNaN(heart_rate[i])
        rows == SelectSeq([i \in 1..Len(speed) |-> i], Both)
        avg_speed == mean([i \in 1..Len(rows) |-> speed[rows[i]]])
        avg_hr == mean([i \in 1..Len(rows) |-> heart_rate[rows[i]]])
    IN IF IsNaN(avg_speed) \/ IsNaN(avg_hr) \/ IsZero(avg_hr) THEN {None}
       ELSE round_or_none(DivX(avg_speed, avg_hr))

compute_pace_hr_ratio(speed, heart_rate) ==
    LET clean_speed == dropna(speed)
        clean_hr == dropna(heart_rate)
        avg_speed == mean(clean_speed)
        avg_hr == mean(clean_hr)
    IN IF Len(clean_speed) = 0 \/ Len(clean_hr) = 0 THEN {None}
       ELSE IF IsNaN(avg_speed) \/ IsNaN(avg_hr) \/ IsZero(avg_hr) THEN {None}
       ELSE round_or_none(DivX(avg_speed, avg_hr))

\* "100.0 - ((std / avg) * 100.0)" without the floor of 0.0, in hundredths
\* (cut, not rounded, below 0); ratio2 = (std / avg)^2.
Unclamped(ratio2) ==
    IF ratio2.n <= ratio2.d THEN RoundedComplement(ratio2.n, ratio2.d)
    ELSE {HundredPct - FloorRoot(ratio2.n, ratio2.d, 4) - 1}

\* "max(0.0, 100.0 - ((std / avg) * 100.0))" rounded, in hundredths, with
\* ratio2 = (std / avg)^2 and avg > 0 (FIT cadence is unsigned, so a non-zero
\* mean is positive): the value is below 0 exactly when std > avg.
Clamped(ratio2) ==
    IF ratio2.n > ratio2.d THEN {0} ELSE RoundedComplement(ratio2.n, ratio2.d)

compute_cadence_consistency(cadence) ==
    LET clean == dropna(cadence)
        avg == mean(clean)
        var == variance(clean)
    IN IF Len(clean) < 2 THEN {None}
       ELSE IF IsNaN(avg) \/ IsZero(avg) \/ IsNaN(var) THEN {None}
       ELSE {Num(h) : h \in Clamped(DivX(var, MulX(avg, avg)))}

\* pd.DataFrame({"speed": speed, "heart_rate": heart_rate}).dropna(): the
\* indices of the rows where both are present, in order.
JointRows(speed, heart_rate) ==
    LET Both(i) == NotNaN(speed[i]) /\ NotNaN(heart_rate[i])
    IN SelectSeq([i \in 1..Len(speed) |-> i], Both)

compute_aerobic_decoupling(speed, heart_rate) ==
    LET rows == JointRows(speed, heart_rate)
        eff == [i \in 1..Len(rows) |-> DivX(speed[rows[i]], heart_rate[rows[i]])]
        mid == midpoint(Len(rows))
        first_eff == mean(iloc(eff, 0, mid))
        second_eff == mean(iloc(eff, mid, Len(eff)))
    IN IF Len(rows) < 4 THEN {None}
       ELSE IF IsNaN(first_eff) \/ IsZero(first_eff) \/ IsNaN(second_eff) THEN {None}
       ELSE round_or_none(
                MulX(DivX(SubX(first_eff, second_eff), first_eff), Int2X(100)))

\* The frame after a global dropna over the three metric channels: the rows
\* where heart_rate, cadence and speed are all present.
CompleteRows(frame) ==
    LET Whole(i) == /\ NotNaN(to_numeric_cell(frame["heart_rate"][i]))
                    /\ NotNaN(to_numeric_cell(frame["cadence"][i]))
                    /\ NotNaN(to_numeric_cell(frame["speed"][i]))
        keep == SelectSeq([i \in 1..NRows(frame) |-> i], Whole)
    IN [c \in DOMAIN frame |-> [i \in 1..Len(keep) |-> frame[c][keep[i]]]]

\* One dict entry, by name, of a frame: its possible values.
EntryOf(frame, m) ==
    LET heart_rate == to_numeric(frame["heart_rate"])
        cadence == to_numeric(frame["cadence"])
        speed == to_numeric(frame["speed"])
    IN CASE m = "avg_hr" -> round_or_none(mean(heart_rate))
         [] m = "max_hr" -> round_or_none(max(heart_rate))
         [] m = "hr_drift_pct" -> compute_hr_drift(heart_rate)
         [] m = "pace_hr_ratio" -> compute_pace_hr_ratio(speed, heart_rate)
         [] m = "cadence_consistency_pct" -> compute_cadence_consistency(cadence)
         [] m = "aerobic_decoupling_pct" -> compute_aerobic_decoupling(speed, heart_rate)

\* every metric computed from the rows that are complete in all channels
MetricListwise(frame, m) == EntryOf(CompleteRows(frame), m)

\* Lines 20-39: the entry m of the returned dict, as the set of its possible
\* values, each metric from its own channels of the frame.
Metric(frame, m) == EntryOf(frame, m)

\* an empty frame answered with zeros instead of None
metrics_zero_when_empty(frame) ==
    [m \in MetricNames |-> IF empty(frame) THEN {Num(0)} ELSE Metric(frame, m)]

\* The returned dict: for each name the set of its possible values.
compute_performance_metrics(frame) ==
    [m \in MetricNames |-> IF empty(frame) THEN {None} ELSE Metric(frame, m)]

\* df.get(col) is None for a column the frame lacks, pd.to_numeric(None) is a
\* float, and float has no mean(): AttributeError.
Raises(frame) ==
    ~empty(frame) /\ ~({"heart_rate", "cadence", "speed"} \subseteq DOMAIN frame)

---------------------------------------------------------------------------
(* The record messages a FIT file may hold *)

Messages ==
    { \* no recognized field at all
      ("power" :> NumV(250)),
      \* an unreadable heart_rate
      ("heart_rate" :> JunkV) @@ ("speed" :> NumV(3)) @@ ("cadence" :> NumV(80))
          @@ ("timestamp" :> NumV(7)),
      ("heart_rate" :> NumV(150)) @@ ("speed" :> NumV(2)) @@ ("cadence" :> NumV(200)),
      \* a heart_rate of 0 beside a speed
      ("heart_rate" :> NumV(0)) @@ ("speed" :> NumV(3)) @@ ("cadence" :> NumV(0)),
      \* heart_rate as a numeric text; cadence present but None
      ("heart_rate" :> TextV(100)) @@ ("speed" :> NumV(3)) @@ ("cadence" :> NullV)
          @@ ("power" :> NumV(250)) }

---------------------------------------------------------------------------
(* main.py: run_analyze *)

VARIABLES
    records,   \* the record messages of the downloaded FIT file, in file order
    df,        \* the frame parse_fit_to_dataframe returned
    metrics,   \* the dict compute_performance_metrics returned
    pc         \* "fit": file being laid down; "done": metrics printed; "raised"

vars == <<records, df, metrics, pc>>

NoFrame == [c \in {} |-> <<>>]

\* metrics before run_analyze has assigned it
NoMetrics == [m \in MetricNames |-> None]

Init ==
    /\ records = <<>>
    /\ df = NoFrame
    /\ metrics = NoMetrics
    /\ pc = "fit"

\* The device writes one more record message to the activity file.
Record(m) ==
    /\ pc = "fit"
    /\ Len(records) < MaxRecords
    /\ records' = Append(records, m)
    /\ UNCHANGED <<df, metrics, pc>>

\* The dicts a call may return, given the possible values of each entry.
Results(out) ==
    {[avg_hr |-> a, max_hr |-> b, hr_drift_pct |-> c, pace_hr_ratio |-> d,
      cadence_consistency_pct |-> e, aerobic_decoupling_pct |-> f] :
        a \in out["avg_hr"], b \in out["max_hr"], c \in out["hr_drift_pct"],
        d \in out["pace_hr_ratio"], e \in out["cadence_consistency_pct"],
        f \in out["aerobic_decoupling_pct"]}

\* run_analyze: df = parse_fit_to_dataframe(fit_path);
\* metrics = compute_performance_metrics(df)
RunAnalyze ==
    /\ pc = "fit"
    /\ df' = parse_fit_to_dataframe(records)
    /\ IF Raises(df')
       THEN metrics' = NoMetrics /\ pc' = "raised"
       ELSE /\ metrics' \in Results(compute_performance_metrics(df'))
            /\ pc' = "done"
    /\ UNCHANGED records

Next ==
    \/ \E m \in Messages : Record(m)
    \/ RunAnalyze

Spec == Init /\ [][Next]_vars

---------------------------------------------------------------------------
(* What the claims are stated with *)

Numeric(c) == c.t \in {"num", "text"}

\* The numbers of a column, in order, missing and unreadable cells left out.
Values(col) ==
    LET sel == SelectSeq(col, Numeric)
    IN [i \in 1..Len(sel) |-> sel[i].v]

RECURSIVE Sum(_)
Sum(v) == IF Len(v) = 0 THEN 0 ELSE Head(v) + Sum(Tail(v))

SumSq(v) == Sum([i \in 1..Len(v) |-> v[i] * v[i]])

\* h is n / d rounded to an integer (d > 0), either way on an exact half.
IsRounding(h, n, d) == 2 * Abs(h * d - n) <= d

Finished == pc = "done"

HrValues == Values(df["heart_rate"])
SpeedValues == Values(df["speed"])
CadenceValues == Values(df["cadence"])

\* Indices of the records that carry at least one recognized field.
WithField == {i \in 1..Len(records) : (DOMAIN records[i]) \cap wanted_fields # {}}

\* The position among the kept rows of record i.
RowIndex(i) == Cardinality({j \in WithField : j <= i})

---------------------------------------------------------------------------
(* C1 *)

\* C1: every returned metric is a finite number or None; an infinite or
\* not-a-number value is never returned.
C1_MetricsFiniteOrNone ==
    Finished => \A m \in MetricNames : metrics[m].k \in {"none", "num"}

\* Beside C1: the five metrics other than aerobic_decoupling_pct are finite or None.
OtherMetricsFinite ==
    Finished => \A m \in MetricNames \ {"aerobic_decoupling_pct"} :
                    metrics[m].k \in {"none", "num"}

---------------------------------------------------------------------------
(* C2 *)

---------------------------------------------------------------------------
(* C3 *)

\* The series with the rows of heart_rate 0 taken out of every channel.
WithoutZeroHr(frame) ==
    LET NonZero(i) == ~IsZero(to_numeric_cell(frame["heart_rate"][i]))
        keep == SelectSeq([i \in 1..NRows(frame) |-> i], NonZero)
    IN [c \in DOMAIN frame |-> [i \in 1..Len(keep) |-> frame[c][keep[i]]]]

\* C3: aerobic_decoupling_pct is what it is for the same series with all rows
\* of heart_rate 0 removed.
C3_ZeroHrRowsJointlyMissing ==
    (Finished /\ ~empty(df)) =>
        LET f == WithoutZeroHr(df)
        IN metrics["aerobic_decoupling_pct"] \in
               compute_aerobic_decoupling(
                   to_numeric(f["speed"]), to_numeric(f["heart_rate"]))

---------------------------------------------------------------------------
(* C4 *)

\* C4: for a series of zero rows all six fields are None.
C4_EmptySeriesAllNone ==
    (Finished /\ NRows(df) = 0) =>
        /\ DOMAIN metrics = MetricNames
        /\ \A m \in MetricNames : metrics[m] = None

\* A file whose records all lack the recognized fields: a frame of six
\* channels and zero rows was analyzed.
C4_Witness ==
    /\ Finished
    /\ Len(records) > 0
    /\ DOMAIN df = wanted_fields
    /\ NRows(df) = 0

---------------------------------------------------------------------------
(* C5 *)

\* Some row has a speed and a heart_rate of 0: its efficiency divides by zero.
ZeroHrJointRow ==
    \E i \in 1..NRows(df) :
        /\ IsZero(to_numeric_cell(df["heart_rate"][i]))
        /\ NotNaN(to_numeric_cell(df["speed"][i]))

\* C5: the analysis of a parsed series never raises and returns exactly the
\* six fields; every empty aggregation, division by zero and too small sample
\* leaves its field None, and only its field (avg_hr and max_hr are numbers
\* whenever a heart_rate is present).
C5_TotalSixFields ==
    /\ pc # "raised"
    /\ Finished =>
        /\ DOMAIN metrics = MetricNames
        /\ Len(HrValues) = 0 =>
               metrics["avg_hr"] = None /\ metrics["max_hr"] = None
        /\ Len(HrValues) > 0 =>
               metrics["avg_hr"].k = "num" /\ metrics["max_hr"].k = "num"
        /\ Len(HrValues) < 4 => metrics["hr_drift_pct"] = None
        /\ Sum(SubSeq(HrValues, 1, Len(HrValues) \div 2)) = 0 =>
               metrics["hr_drift_pct"] = None
        /\ Len(CadenceValues) < 2 => metrics["cadence_consistency_pct"] = None
        /\ Sum(CadenceValues) = 0 => metrics["cadence_consistency_pct"] = None
        /\ (Len(SpeedValues) = 0 \/ Len(HrValues) = 0) =>
               metrics["pace_hr_ratio"] = None
        /\ Sum(HrValues) = 0 => metrics["pace_hr_ratio"] = None
        /\ ZeroHrJointRow => metrics["aerobic_decoupling_pct"] = None

\* Beside C5: the same statement without its last line, the division by a
\* heart_rate of 0 in aerobic_decoupling_pct.
TotalOutsideZeroHr ==
    /\ pc # "raised"
    /\ Finished =>
        /\ DOMAIN metrics = MetricNames
        /\ \A m \in MetricNames : metrics[m].k \in {"none", "num", "inf"}
        /\ Len(HrValues) = 0 =>
               metrics["avg_hr"] = None /\ metrics["max_hr"] = None
        /\ Len(HrValues) > 0 =>
               metrics["avg_hr"].k = "num" /\ metrics["max_hr"].k = "num"
        /\ Len(HrValues) < 4 => metrics["hr_drift_pct"] = None
        /\ Sum(SubSeq(HrValues, 1, Len(HrValues) \div 2)) = 0 =>
               metrics["hr_drift_pct"] = None
        /\ Len(CadenceValues) < 2 => metrics["cadence_consistency_pct"] = None
        /\ Sum(CadenceValues) = 0 => metrics["cadence_consistency_pct"] = None
        /\ (Len(SpeedValues) = 0 \/ Len(HrValues) = 0) =>
               metrics["pace_hr_ratio"] = None
        /\ Sum(HrValues) = 0 => metrics["pace_hr_ratio"] = None

---------------------------------------------------------------------------
(* C6 *)

\* C6: with v the n non-missing heart_rate values in order and mid = n \div 2,
\* hr_drift_pct is None when n < 4 or the mean of v[0, mid) is 0, and otherwise
\* ((mean of v[mid, n)) - (mean of v[0, mid))) / (mean of v[0, mid)) * 100
\* rounded to 2 decimals: writing s1, s2 for the sums of the two halves, that
\* is 100 * (s2 * mid - s1 * (n - mid)) / (s1 * (n - mid)).
C6_HrDrift ==
    Finished /\ ~empty(df) =>
        LET v == HrValues
            n == Len(v)
            mid == n \div 2
            s1 == Sum(SubSeq(v, 1, mid))
            s2 == Sum(SubSeq(v, mid + 1, n))
            r == metrics["hr_drift_pct"]
        IN IF n < 4 \/ s1 = 0 THEN r = None
           ELSE /\ r.k = "num"
                /\ IsRounding(r.h, 100 * 100 * (s2 * mid - s1 * (n - mid)),
                              s1 * (n - mid))

\* Five heart_rate samples 100, 100, 150, 150, 150: the odd sample is in the
\* second half, the means are 100 and 150, the drift is 50.00.
C6_Witness ==
    /\ Finished
    /\ HrValues = <<100, 100, 150, 150, 150>>
    /\ metrics["hr_drift_pct"] = Num(5000)

---------------------------------------------------------------------------
(* C7 *)

\* C7: over the rows where speed and heart_rate are both present (n of them,
\* in order), aerobic_decoupling_pct is None when n < 4 or the first-half mean
\* efficiency is 0, and otherwise the number
\* ((first_eff - second_eff) / first_eff) * 100 rounded to 2 decimals, the
\* efficiencies being speed / heart_rate split at n \div 2.
C7_AerobicDecoupling ==
    Finished /\ ~empty(df) =>
        LET speed == to_numeric(df["speed"])
            hr == to_numeric(df["heart_rate"])
            J == {i \in 1..NRows(df) : NotNaN(speed[i]) /\ NotNaN(hr[i])}
            rows == SelectSeq([i \in 1..NRows(df) |-> i], LAMBDA i : i \in J)
            n == Len(rows)
            eff == [i \in 1..n |-> DivX(speed[rows[i]], hr[rows[i]])]
            first_eff == DivX(SumX(SubSeq(eff, 1, n \div 2)), Int2X(n \div 2))
            second_eff == DivX(SumX(SubSeq(eff, n \div 2 + 1, n)), Int2X(n - n \div 2))
            want == MulX(DivX(SubX(first_eff, second_eff), first_eff), Int2X(100))
            r == metrics["aerobic_decoupling_pct"]
        IN IF n < 4 \/ IsZero(first_eff) THEN r = None
           ELSE /\ r.k = "num"
                /\ want.k = "fin"
                /\ IsRounding(r.h, 100 * want.n, want.d)

\* Beside C7: the same statement for the series in which no row with both
\* values present has a heart_rate of 0.
DecouplingWhenHrNonZero ==
    (\A i \in 1..NRows(df) :
        ~(IsZero(to_numeric_cell(df["heart_rate"][i]))
          /\ NotNaN(to_numeric_cell(df["speed"][i]))))
    => C7_AerobicDecoupling

---------------------------------------------------------------------------
(* C8 *)

---------------------------------------------------------------------------
(* C9 *)

\* C9: with c the n present cadence values, cadence_consistency_pct is None
\* when n < 2 or their mean is 0, and otherwise a number >= 0 equal to
\* max(0, 100 - (sample stddev / mean) * 100) rounded to 2 decimals: 100.00
\* when all values are equal, 0.00 when stddev > mean.  With S the sum and Q
\* the sum of squares, (stddev / mean)^2 = n (n Q - S^2) / ((n - 1) S^2).
C9_CadenceConsistency ==
    Finished /\ ~empty(df) =>
        LET c == CadenceValues
            n == Len(c)
            S == Sum(c)
            p0 == n * (n * SumSq(c) - S * S)
            r0 == (n - 1) * S * S
            g == Gcd(p0, r0)
            p == p0 \div g
            r == r0 \div g
            res == metrics["cadence_consistency_pct"]
            below == HundredPct - res.h
        IN IF n < 2 \/ S = 0 THEN res = None
           ELSE /\ res.k = "num"
                /\ res.h >= 0
                /\ p > r => res.h = 0
                /\ p <= r =>
                    /\ below >= 0
                    /\ below = 0 \/
                         CmpProd((2 * below - 1) * (2 * below - 1), r,
                                 4 * HundredPctSq, p) <= 0
                    /\ CmpProd((2 * below + 1) * (2 * below + 1), r,
                               4 * HundredPctSq, p) >= 0
                /\ (\A i \in 1..n : c[i] = c[1]) => res.h = HundredPct

\* Cadences 0 and 200: mean 100, stddev 141.4, unclamped value -41.42; the
\* metric is 0.00.
C9_Witness ==
    /\ Finished
    /\ CadenceValues = <<0, 200>>
    /\ metrics["cadence_consistency_pct"] = Num(0)

---------------------------------------------------------------------------
(* C10 *)

\* The frame with the channels in cols overwritten: by one cell everywhere,
\* or (how = "reversed") by the channel's own values in reverse order.
Overwritten(frame, cols, how) ==
    LET n == NRows(frame)
    IN [c \in DOMAIN frame |->
          IF c \notin cols THEN frame[c]
          ELSE [i \in 1..n |->
                  IF how = "missing" THEN NA
                  ELSE IF how = "one" THEN NumV(1)
                  ELSE frame[c][n + 1 - i]]]

Overwrites == {"missing", "one", "reversed"}

\* C10: for a non-empty series, avg_hr, max_hr and hr_drift_pct are the same
\* for every series that agrees on heart_rate, cadence_consistency_pct for
\* every series that agrees on cadence, pace_hr_ratio and
\* aerobic_decoupling_pct for every series that agrees on speed and
\* heart_rate, whatever the other channels hold.
C10_MetricsReadOwnChannels ==
    Finished /\ ~empty(df) =>
        \A how \in Overwrites :
            LET Same(others, m) ==
                    metrics[m] \in
                        compute_performance_metrics(Overwritten(df, others, how))[m]
            IN /\ \A m \in {"avg_hr", "max_hr", "hr_drift_pct"} :
                    Same(wanted_fields \ {"heart_rate"}, m)
               /\ Same(wanted_fields \ {"cadence"}, "cadence_consistency_pct")
               /\ \A m \in {"pace_hr_ratio", "aerobic_decoupling_pct"} :
                    Same(wanted_fields \ {"speed", "heart_rate"}, m)

\* A series with four heart_rate values and hr_drift_pct defined, whose
\* cadence has fewer than two values (cadence_consistency_pct is None) and
\* whose heart_rate is missing on some row that has a speed.
C10_Witness ==
    /\ Finished
    /\ Len(HrValues) >= 4
    /\ metrics["hr_drift_pct"].k = "num"
    /\ metrics["cadence_consistency_pct"] = None
    /\ metrics["pace_hr_ratio"].k = "num"
    /\ \E i \in 1..NRows(df) : Numeric(df["speed"][i]) /\ ~Numeric(df["heart_rate"][i])

---------------------------------------------------------------------------
(* C11 *)

\* C11: for a non-empty series, avg_hr and max_hr are the mean and the maximum
\* of the present heart_rate values rounded to 2 decimals; when every
\* heart_rate slot is missing both are None, while cadence_consistency_pct is
\* still what the cadence channel alone gives, a number exactly when cadence has at
\* least 2 present values with a non-zero mean.
C11_AvgMaxHr ==
    Finished /\ ~empty(df) =>
        LET v == HrValues
            n == Len(v)
            c == CadenceValues
            top == CHOOSE x \in {v[i] : i \in 1..n} : \A i \in 1..n : v[i] <= x
        IN IF n = 0
           THEN /\ metrics["avg_hr"] = None
                /\ metrics["max_hr"] = None
                /\ metrics["cadence_consistency_pct"] \in
                       compute_cadence_consistency(to_numeric(df["cadence"]))
                /\ (Len(c) >= 2 /\ Sum(c) # 0) <=>
                       metrics["cadence_consistency_pct"].k = "num"
           ELSE /\ metrics["avg_hr"].k = "num"
                /\ IsRounding(metrics["avg_hr"].h, 100 * Sum(v), n)
                /\ metrics["max_hr"] = Num(100 * top)

\* Three rows whose heart_rate is unreadable on every row and whose cadence is
\* 80 throughout: avg_hr and max_hr are None, cadence_consistency_pct is 100.00.
C11_Witness ==
    /\ Finished
    /\ NRows(df) = 3
    /\ \A i \in 1..NRows(df) : df["heart_rate"][i] = JunkV
    /\ CadenceValues = <<80, 80, 80>>
    /\ metrics["avg_hr"] = None
    /\ metrics["max_hr"] = None
    /\ metrics["cadence_consistency_pct"] = Num(HundredPct)

\* Heart_rates 150, 100, 100 with one more row whose heart_rate is unreadable:
\* the mean over the three present values is 116.67, the maximum 150.
C11_MeanOfPresent ==
    /\ Finished
    /\ NRows(df) = 4
    /\ HrValues = <<150, 100, 100>>
    /\ metrics["avg_hr"] = Num(11667)
    /\ metrics["max_hr"] = Num(15000)

=============================================================================
